---------------------------- MODULE Spec2Model ----------------------------
(***************************************************************************)
(* A model of erhic::ParticleMC (src/src/erhic/ParticleMC.cxx) and of the  *)
(* beam identification declared in ParticleIdentifier.h.                   *)
(*                                                                         *)
(* Numbers.  Int_t / UShort_t / unsigned keep their widths where the code  *)
(* relies on wrap-around.  Double_t values are modelled in fixed point     *)
(* with unit resolution: sqrt is the integer square root (so that the      *)
(* rounding of p against pz, which the sentinel test of                    *)
(* ComputeDerivedQuantities depends on, can happen), and the               *)
(* transcendental results (log, atan2, the boosted observables) are terms  *)
(* <<name, arguments...>> that record what they were computed from.        *)
(***************************************************************************)
EXTENDS Integers, Sequences, FiniteSets, TLC

VARIABLES
    part,      \* the particle operated on: a record of the fields of ParticleMC
    event,     \* the event's track list, a sequence of tracks (0-based index k is event[k+1])
    op,        \* the operation that ran last
    arg,       \* its argument, a sequence of integers
    ret,       \* what it returned: <<"void">>, <<"null">>, <<"track", k>>, <<"bool", b>>, <<"throw">>
    lookups,   \* the track indices it handed to EventMC::GetTrack
    logged,    \* whether it wrote its exception message to std::cerr
    used,      \* the track indices ComputeEventDependentQuantities took as <<hadron, lepton, boson>>
    beams,     \* the vector filled by IdentifyBeams: four entries, Null or Ptr(k)
    bp,        \* the BeamParticles object filled by IdentifyBeams
    ss,        \* the constructor's function-local static std::stringstream
    pc,        \* per constructing thread: its position in the constructor
    tline,     \* per constructing thread: the line it was given
    obj        \* per constructing thread: the particle under construction

vars == <<part, event, op, arg, ret, lookups, logged, used, beams, bp, ss, pc, tline, obj>>

---------------------------------------------------------------------------
(* Bounds of the model *)

\* Largest number of tracks in an event.
MaxN == 5
\* Largest child offset handed to GetChild.
MaxU == 3
\* Largest |pz| of a four-vector handed to the particle.
MaxMom == 1
\* Largest number of tracks of an event handed to the beam identifier.
MaxBeamN == 4

---------------------------------------------------------------------------
(* Integer widths *)

\* UShort_t is 16 bits wide.
UShortMod == 65536
\* unsigned arithmetic wraps; TLC's integers end at 2^31 - 1, so the
\* model wraps at 2^30 (an unsigned of the code never gets that far unless it
\* wrapped: the indices are UShort_t and the track counts are small).
UIntMod == 1073741824
\* std::numeric_limits<Int_t>::min()
IntMin == (0 - 2147483647) - 1

UShort(x) == x % UShortMod
UInt(x) == x % UIntMod

---------------------------------------------------------------------------
(* Double_t values *)

Num(x) == <<"num", x>>

RECURSIVE ISqrtFrom(_, _)
ISqrtFrom(n, r) == IF (r + 1) * (r + 1) > n THEN r ELSE ISqrtFrom(n, r + 1)
\* sqrt, rounded to the resolution of the model.
Sqrt(n) == ISqrtFrom(n, 0)

\* 0.5 * log(num / den)
HalfLog(num, den) == <<"halflog", num, den>>
\* atan2(y, x)
Atan2(y, x) == <<"atan2", y, x>>
\* TVector2::Phi_0_2pi(atan2(y, x))
Phi02pi(y, x) == <<"phi_0_2pi", y, x>>

---------------------------------------------------------------------------
(* Pointers into the event *)

Null == <<>>
Ptr(k) == <<k>>

NTracks(ev) == Len(ev)
\* EventMC::GetTrack(k) finds a track exactly for 0 <= k < N; any other index
\* is a failed lookup.
HasTrack(ev, k) == k \in 0 .. (NTracks(ev) - 1)
TrackAt(ev, k) == ev[k + 1]

---------------------------------------------------------------------------
(* The particle *)

\* The member initialiser list of the constructor.
DefaultParticle ==
    [ I |-> UShort(-1), KS |-> UShort(-1), id |-> IntMin,
      orig |-> UShort(-1), daughter |-> UShort(-1), ldaughter |-> UShort(-1),
      px |-> 0, py |-> 0, pz |-> 0, E |-> 0, m |-> 0, pt |-> 0,
      xv |-> 0, yv |-> 0, zv |-> 0,
      parentId |-> IntMin,
      p |-> 0, theta |-> Num(0), phi |-> Num(0),
      rapidity |-> Num(0), eta |-> Num(0),
      z |-> Num(0), xFeynman |-> Num(0), thetaGamma |-> Num(0),
      ptVsGamma |-> Num(0), phiPrf |-> Num(0),
      event |-> FALSE ]

\* The sentinel of rapidity and eta.
Dummy == -19

\* The test that guards the two logarithms.
Degenerate(Epluspz, Eminuspz, Ppluspz, Pminuspz) ==
    Eminuspz <= 0 \/ Pminuspz = 0 \/ Ppluspz = 0 \/ Epluspz <= 0

ComputeDerivedQuantities(q) ==
    LET pt == Sqrt(q.px * q.px + q.py * q.py)
        p  == Sqrt(pt * pt + q.pz * q.pz)
        Epluspz  == q.E + q.pz
        Eminuspz == q.E - q.pz
        Ppluspz  == p + q.pz
        Pminuspz == p - q.pz
        deg == Degenerate(Epluspz, Eminuspz, Ppluspz, Pminuspz)
    IN  [ q EXCEPT
            !.pt = pt,
            !.p = p,
            !.rapidity = IF deg THEN Num(Dummy) ELSE HalfLog(Epluspz, Eminuspz),
            !.eta = IF deg THEN Num(Dummy) ELSE HalfLog(Ppluspz, Pminuspz),
            !.theta = Atan2(pt, q.pz),
            !.phi = Phi02pi(q.py, q.px) ]

Get4Vector(q) == <<q.px, q.py, q.pz, q.E>>

---------------------------------------------------------------------------
(* The constructor's std::stringstream.  A line is the sequence of its      *)
(* whitespace-separated tokens; a token is <<v>> when it reads as the       *)
(* number v and <<>> when it does not.                                      *)

Tok(v) == <<v>>
BadTok == <<>>
IsNumber(tok) == Len(tok) = 1

\* The number of fields operator>> fills.
NFields == 14

FreshStream == [ buf |-> <<>>, pos |-> 0, fail |-> FALSE, eof |-> FALSE ]

\* ss.str(""): the buffer is replaced and the positions rewound; the state
\* flags stay.
SsStr(s) == [ s EXCEPT !.buf = <<>>, !.pos = 0 ]

\* ss.clear()
SsClear(s) == [ s EXCEPT !.fail = FALSE, !.eof = FALSE ]

\* ss << line: appends, unless the stream is not good.
SsInsert(s, line) ==
    IF s.fail \/ s.eof THEN [ s EXCEPT !.fail = TRUE ]
    ELSE [ s EXCEPT !.buf = s.buf \o line ]

\* How many of the next NFields tokens extract as numbers.
RECURSIVE Extractable(_, _, _)
Extractable(s, from, n) ==
    IF n = NFields \/ from + n >= Len(s.buf) \/ ~IsNumber(s.buf[from + n + 1])
    THEN n
    ELSE Extractable(s, from, n + 1)

\* ss >> I >> ... >> zv: the stream after the chain of extractions.  Reading
\* up to the end of the buffer sets eofbit; a token that is missing or is no
\* number sets failbit, and the extractions after it do nothing.
SsExtract(s) ==
    IF s.fail \/ s.eof THEN [ s EXCEPT !.fail = TRUE ]
    ELSE LET k == Extractable(s, s.pos, 0)
         IN  [ s EXCEPT !.pos = s.pos + k,
                        !.eof = (s.pos + k = Len(s.buf)),
                        !.fail = (k < NFields) ]

\* The values the chain of extractions read.
Extracted(s) ==
    IF s.fail \/ s.eof THEN <<>>
    ELSE LET k == Extractable(s, s.pos, 0)
         IN  [ i \in 1 .. k |-> s.buf[s.pos + i][1] ]

\* The fields in the order the constructor extracts them.
FieldOrder == << "I", "KS", "id", "orig", "daughter", "ldaughter",
                 "px", "py", "pz", "E", "m", "xv", "yv", "zv" >>

RECURSIVE Fill(_, _, _)
Fill(q, vals, i) ==
    IF i > Len(vals) THEN q
    ELSE Fill([ q EXCEPT ![FieldOrder[i]] = vals[i] ], vals, i + 1)

\* if(ss.fail() or not ss.eof()) throw
BadInput(s) == s.fail \/ ~s.eof

\* The constructor run by one thread on its own: the particle it builds, or
\* <<>> when it throws.
Construct(line) ==
    IF line = <<>> THEN <<DefaultParticle>>
    ELSE LET s1 == SsInsert(SsClear(SsStr(FreshStream)), line)
             q  == Fill(DefaultParticle, Extracted(s1), 1)
             s2 == SsExtract(s1)
         IN  IF BadInput(s2) THEN <<>> ELSE <<ComputeDerivedQuantities(q)>>

Line(I, KS, id, orig, daughter, ldaughter, px, py, pz, E, m, xv, yv, zv) ==
    << Tok(I), Tok(KS), Tok(id), Tok(orig), Tok(daughter), Tok(ldaughter),
       Tok(px), Tok(py), Tok(pz), Tok(E), Tok(m), Tok(xv), Tok(yv), Tok(zv) >>

---------------------------------------------------------------------------
(* Accessors of the particle *)

\* GetEvent(): whether the particle's reference to its event is non-null.
GetEvent(q) == q.event

\* GetParentIndex(): the stored origin index.
GetParentIndex(q) == q.orig

\* GetNChildren(): last daughter - first daughter + 1.
GetNChildren(q) == q.ldaughter - q.daughter + 1

---------------------------------------------------------------------------
(* ComputeEventDependentQuantities *)

\* The tracks taken as beam hadron, beam lepton and exchange boson.
HadronTrack == 1
LeptonTrack == 2
BosonTrack == 3

\* The lookups of the three beam tracks, in the order of the code, up to and
\* including the first that fails.
BeamLookups(ev) ==
    IF ~HasTrack(ev, HadronTrack) THEN {HadronTrack}
    ELSE IF ~HasTrack(ev, LeptonTrack) THEN {HadronTrack, LeptonTrack}
    ELSE {HadronTrack, LeptonTrack, BosonTrack}

BeamsPresent(ev) ==
    HasTrack(ev, HadronTrack) /\ HasTrack(ev, LeptonTrack) /\ HasTrack(ev, BosonTrack)

\* A frame-dependent observable: a term over the particle's four-vector and
\* the tracks that define the frame.
Observable(name, q, frame) == <<name>> \o Get4Vector(q) \o frame

\* The parent test that stops one short of the last track.
ParentInEvent_Strict(q, ev) == NTracks(ev) - 1 > UInt(q.orig - 1)

\* if(event.GetNTracks() > unsigned(orig - 1))
ParentInEvent(q, ev) == NTracks(ev) > UInt(q.orig - 1)

\* The body of the try block when no lookup throws.
FrameDependent(q, ev) ==
    LET q1 == [ q EXCEPT
                  !.z = Observable("z", q, <<HadronTrack, BosonTrack>>),
                  !.thetaGamma = Observable("thetaGamma", q, <<HadronTrack, BosonTrack>>),
                  !.ptVsGamma = Observable("ptVsGamma", q, <<HadronTrack, BosonTrack>>),
                  !.phiPrf = Observable("phiPrf", q, <<HadronTrack, LeptonTrack, BosonTrack>>),
                  !.xFeynman = Observable("xFeynman", q, <<HadronTrack, BosonTrack>>) ]
    IN  IF ParentInEvent(q, ev)
        THEN [ q1 EXCEPT !.parentId = TrackAt(ev, UInt(q.orig - 1)).id ]
        ELSE q1

\* The call with the parent species looked up before the beam tracks, so that
\* a missing beam leaves the particle half updated.
ComputeEventDependentQuantities_ParentFirst(q, ev) ==
    IF BeamsPresent(ev)
    THEN [ part |-> FrameDependent(q, ev),
           lookups |-> BeamLookups(ev) \cup
                       (IF ParentInEvent(q, ev) THEN {UInt(q.orig - 1)} ELSE {}),
           caught |-> FALSE, threw |-> FALSE,
           used |-> <<HadronTrack, LeptonTrack, BosonTrack>> ]
    ELSE [ part |-> IF ParentInEvent(q, ev)
                    THEN [ q EXCEPT !.parentId = TrackAt(ev, UInt(q.orig - 1)).id ]
                    ELSE q,
           lookups |-> BeamLookups(ev),
           caught |-> TRUE, threw |-> FALSE, used |-> <<>> ]

\* The whole call: the particle after it, the lookups it made, whether the
\* catch block ran, whether an exception left the function, and the tracks
\* it used as <<hadron, lepton, boson>>.
ComputeEventDependentQuantities(q, ev) ==
    IF BeamsPresent(ev)
    THEN [ part |-> FrameDependent(q, ev),
           lookups |-> BeamLookups(ev) \cup
                       (IF ParentInEvent(q, ev) THEN {UInt(q.orig - 1)} ELSE {}),
           caught |-> FALSE, threw |-> FALSE,
           used |-> <<HadronTrack, LeptonTrack, BosonTrack>> ]
    ELSE [ part |-> q, lookups |-> BeamLookups(ev),
           caught |-> TRUE, threw |-> FALSE, used |-> <<>> ]

---------------------------------------------------------------------------
(* Navigation *)

\* GetChild with the bounds test off by one.
GetChild_OffByOne(q, ev, u) ==
    IF ~GetEvent(q) THEN [ ret |-> <<"null">>, lookups |-> {} ]
    ELSE LET idx == UInt(q.daughter + u)
         IN  IF q.daughter < 1 \/ u >= GetNChildren(q)
             THEN [ ret |-> <<"null">>, lookups |-> {} ]
             ELSE IF UInt(idx - 1) <= NTracks(ev)
                  THEN [ ret |-> <<"track", UInt(idx - 1)>>, lookups |-> {UInt(idx - 1)} ]
                  ELSE [ ret |-> <<"null">>, lookups |-> {} ]

\* GetChild(u): what it returns and the lookups it makes.
GetChild(q, ev, u) ==
    IF ~GetEvent(q) THEN [ ret |-> <<"null">>, lookups |-> {} ]
    ELSE LET idx == UInt(q.daughter + u)
         IN  IF q.daughter < 1 \/ u >= GetNChildren(q)
             THEN [ ret |-> <<"null">>, lookups |-> {} ]
             ELSE IF UInt(idx - 1) < NTracks(ev)
                  THEN [ ret |-> <<"track", UInt(idx - 1)>>, lookups |-> {UInt(idx - 1)} ]
                  ELSE [ ret |-> <<"null">>, lookups |-> {} ]

\* GetParent(): what it returns and the lookups it makes.  A lookup outside
\* the track list fails.
GetParent(q, ev) ==
    IF ~GetEvent(q) THEN [ ret |-> <<"null">>, lookups |-> {} ]
    ELSE IF NTracks(ev) >= GetParentIndex(q)
         THEN LET k == UInt(GetParentIndex(q) - 1)
              IN  [ ret |-> IF HasTrack(ev, k) THEN <<"track", k>> ELSE <<"throw">>,
                    lookups |-> {k} ]
         ELSE [ ret |-> <<"null">>, lookups |-> {} ]

---------------------------------------------------------------------------
(* ParticleIdentifier::IdentifyBeams *)

\* The PDG code of the lepton beam the identifier is configured with.
LeptonBeamPdgCode == 11

IsInitialState(t) == t.KS = 21
IsFinalState(t) == t.KS = 1

isBeamLepton(t) == t.id = LeptonBeamPdgCode /\ IsInitialState(t)
isBeamNucleon(t) == IsInitialState(t) /\ t.id \in {2212, 2112}
IsVirtualPhoton(t) == IsInitialState(t) /\ t.id \in {22, 23, 24}
IsFinalLepton(t) == t.id = LeptonBeamPdgCode /\ IsFinalState(t)

Least(S) == CHOOSE k \in S : \A j \in S : k <= j

\* The first of the track indices S, or NULL.
FirstTrack(S) == IF S = {} THEN Null ELSE Ptr(Least(S))

BeamLeptons(ev) == { k \in 0 .. (NTracks(ev) - 1) : isBeamLepton(TrackAt(ev, k)) }
BeamNucleons(ev) == { k \in 0 .. (NTracks(ev) - 1) : isBeamNucleon(TrackAt(ev, k)) }
VirtualPhotons(ev) == { k \in 0 .. (NTracks(ev) - 1) : IsVirtualPhoton(TrackAt(ev, k)) }

\* The final-state lepton produced from the incident lepton; failing that,
\* the final-state lepton of highest energy.
ScatteredLepton(ev) ==
    LET lepton == FirstTrack(BeamLeptons(ev))
        cands  == { k \in 0 .. (NTracks(ev) - 1) : IsFinalLepton(TrackAt(ev, k)) }
        direct == { k \in cands : lepton # Null /\ TrackAt(ev, k).orig - 1 = lepton[1] }
        best   == { k \in cands : \A j \in cands : TrackAt(ev, j).E <= TrackAt(ev, k).E }
    IN  IF direct # {} THEN Ptr(Least(direct))
        ELSE IF cands # {} THEN Ptr(Least(best))
        ELSE Null

\* The vector form: incident lepton, incident hadron, exchanged boson,
\* scattered lepton, each a pointer to a track of the event or NULL.
BeamVector(ev) ==
    << FirstTrack(BeamLeptons(ev)),
       FirstTrack(BeamNucleons(ev)),
       FirstTrack(VirtualPhotons(ev)),
       ScatteredLepton(ev) >>

\* The return value that forgets the scattered lepton.
AllFound_FirstThree(found) == \A i \in 1 .. 3 : found[i] # Null

\* The return value: whether no entry is NULL.
AllFound(found) == \A i \in 1 .. Len(found) : found[i] # Null

\* The properties stored for a track: its four-momentum, here its energy.
Properties(ev, ptr) == IF ptr = Null THEN Null ELSE <<TrackAt(ev, ptr[1]).E>>

\* The BeamParticles form.  With no boson in the track list, the boson is
\* the difference of the incident and the scattered lepton.
BeamProperties(ev) ==
    LET v == BeamVector(ev)
        synthetic == IF v[1] # Null /\ v[4] # Null
                     THEN <<TrackAt(ev, v[1][1]).E - TrackAt(ev, v[4][1]).E>>
                     ELSE Null
    IN  << Properties(ev, v[1]),
           Properties(ev, v[2]),
           IF v[3] # Null THEN Properties(ev, v[3]) ELSE synthetic,
           Properties(ev, v[4]) >>

---------------------------------------------------------------------------
(* Setters *)

SetEvent(q, e) == [ q EXCEPT !.event = e ]

\* Set4Vector without the recomputation of the derived quantities.
Set4Vector_NoRecompute(q, v) ==
    [ q EXCEPT !.E = v[4], !.px = v[1], !.py = v[2], !.pz = v[3] ]

Set4Vector(q, v) ==
    ComputeDerivedQuantities([ q EXCEPT !.E = v[4], !.px = v[1], !.py = v[2], !.pz = v[3] ])

\* SetVertex that also clears the parent species.
SetVertex_ClearsParent(q, v) ==
    [ q EXCEPT !.xv = v[1], !.yv = v[2], !.zv = v[3], !.parentId = IntMin ]

SetVertex(q, v) == [ q EXCEPT !.xv = v[1], !.yv = v[2], !.zv = v[3] ]

---------------------------------------------------------------------------
(* Inputs *)

\* Track k (0-based) of the events handed to a particle: the layout of the
\* generator output, lepton beam first.
Track(KS, id, orig, E) == [ KS |-> KS, id |-> id, orig |-> orig, E |-> E ]

StdTrack(k) ==
    CASE k = 0 -> Track(21, 11, 0, 3)
      [] k = 1 -> Track(21, 2212, 0, 9)
      [] k = 2 -> Track(21, 11, 1, 2)
      [] k = 3 -> Track(21, 22, 1, 1)
      [] k = 4 -> Track(1, 11, 3, 2)
      [] OTHER -> Track(1, 100 + k, 2, 1)

StdEvent(n) == [ k \in 1 .. n |-> StdTrack(k - 1) ]
StdEvents == { StdEvent(n) : n \in 0 .. MaxN }

IndexVals == 0 .. (MaxN + 1)

\* Lines that differ in their lineage indices.
NavLines ==
    { Line(1, 1, 211, o, d, l, 1, 0, 1, 2, 0, 0, 0, 0) :
        o \in IndexVals, d \in IndexVals, l \in IndexVals }

Transverse == { <<0, 0>>, <<1, 0>> }
Energies == 0 .. 2
Vecs ==
    { <<t[1], t[2], pz, E>> :
        t \in Transverse, pz \in (0 - MaxMom) .. MaxMom, E \in Energies }

\* Events handed to ComputeEventDependentQuantities: no tracks, the boson
\* missing, all beams there.
KinEvents == { StdEvent(0), StdEvent(3), StdEvent(MaxN) }

Vertices == { <<1, 2, 3>> }

\* Lines that differ in their four-momentum.
KinLines ==
    { Line(1, 1, 211, 1, 0, 0, v[1], v[2], v[3], v[4], 0, 0, 0, 0) : v \in Vecs }

\* Tracks an event handed to the beam identifier is made of.
TrackKinds ==
    { Track(21, 11, 0, 3),      \* lepton beam
      Track(21, 2212, 0, 9),    \* hadron beam
      Track(21, 22, 1, 1),      \* virtual photon
      Track(1, 11, 1, 2),       \* final-state lepton from the first track
      Track(1, 11, 3, 3),       \* final-state lepton from the third track
      Track(1, 211, 2, 1) }     \* final-state pion

RECURSIVE Events(_)
Events(n) ==
    IF n = 0 THEN { <<>> }
    ELSE LET shorter == Events(n - 1)
         IN  shorter \cup { Append(ev, t) : ev \in { e \in shorter : Len(e) = n - 1 },
                                             t \in TrackKinds }

BeamEvents == Events(MaxBeamN)

\* What is left alone by the operations on one particle.
IdleBeams == beams = <<>> /\ bp = <<>>
IdleThreads == ss = FreshStream /\ pc = <<>> /\ tline = <<>> /\ obj = <<>>

---------------------------------------------------------------------------
(* Operations on one particle *)

Constructed(lines) ==
    /\ \E line \in lines : Construct(line) # <<>> /\ part = Construct(line)[1]
    /\ op = "ctor" /\ arg = <<>> /\ ret = <<"void">>
    /\ lookups = {} /\ logged = FALSE /\ used = <<>>

DoSetEvent(e) ==
    /\ part' = SetEvent(part, e)
    /\ op' = "SetEvent" /\ arg' = <<>> /\ ret' = <<"void">>
    /\ lookups' = {} /\ logged' = FALSE
    /\ UNCHANGED <<event, used, beams, bp, ss, pc, tline, obj>>

DoGetParent ==
    /\ op' = "GetParent" /\ arg' = <<>>
    /\ ret' = GetParent(part, event).ret
    /\ lookups' = GetParent(part, event).lookups
    /\ logged' = FALSE
    /\ UNCHANGED <<part, event, used, beams, bp, ss, pc, tline, obj>>

DoGetChild(u) ==
    /\ op' = "GetChild" /\ arg' = <<u>>
    /\ ret' = GetChild(part, event, u).ret
    /\ lookups' = GetChild(part, event, u).lookups
    /\ logged' = FALSE
    /\ UNCHANGED <<part, event, used, beams, bp, ss, pc, tline, obj>>

DoComputeEventDependentQuantities(ev) ==
    LET r == ComputeEventDependentQuantities(part, ev)
    IN  /\ part' = r.part
        /\ event' = ev
        /\ op' = "ComputeEventDependentQuantities" /\ arg' = <<>>
        /\ ret' = IF r.threw THEN <<"throw">> ELSE <<"void">>
        /\ lookups' = r.lookups
        /\ logged' = r.caught
        /\ used' = r.used
        /\ UNCHANGED <<beams, bp, ss, pc, tline, obj>>

DoSet4Vector(v) ==
    /\ part' = Set4Vector(part, v)
    /\ op' = "Set4Vector" /\ arg' = v /\ ret' = <<"void">>
    /\ lookups' = {} /\ logged' = FALSE
    /\ UNCHANGED <<event, used, beams, bp, ss, pc, tline, obj>>

DoSetVertex(v) ==
    /\ part' = SetVertex(part, v)
    /\ op' = "SetVertex" /\ arg' = v /\ ret' = <<"void">>
    /\ lookups' = {} /\ logged' = FALSE
    /\ UNCHANGED <<event, used, beams, bp, ss, pc, tline, obj>>

---------------------------------------------------------------------------
(* Navigation from a particle: parent, children, parent species *)

InitNav ==
    /\ Constructed(NavLines \cup {<<>>})
    /\ event \in StdEvents
    /\ IdleBeams /\ IdleThreads

NextNav ==
    \/ \E e \in BOOLEAN : DoSetEvent(e)
    \/ DoGetParent
    \/ \E u \in 0 .. MaxU : DoGetChild(u)
    \/ DoComputeEventDependentQuantities(event)

SpecNav == InitNav /\ [][NextNav]_vars

---------------------------------------------------------------------------
(* Kinematics of a particle *)

InitKin ==
    /\ Constructed(KinLines \cup {<<>>})
    /\ event \in KinEvents
    /\ IdleBeams /\ IdleThreads

NextKin ==
    \/ \E e \in BOOLEAN : DoSetEvent(e)
    \/ \E v \in Vecs : DoSet4Vector(v)
    \/ \E v \in Vertices : DoSetVertex(v)
    \/ \E ev \in KinEvents : DoComputeEventDependentQuantities(ev)

SpecKin == InitKin /\ [][NextKin]_vars

---------------------------------------------------------------------------
(* Beam identification, then the frame-dependent quantities of a particle *)

DoIdentifyBeams ==
    /\ beams' = BeamVector(event)
    /\ op' = "IdentifyBeams" /\ arg' = <<>>
    /\ ret' = <<"bool", AllFound(BeamVector(event))>>
    /\ lookups' = 0 .. (NTracks(event) - 1)
    /\ logged' = FALSE
    /\ UNCHANGED <<part, event, used, bp, ss, pc, tline, obj>>

DoIdentifyBeamParticles ==
    /\ bp' = BeamProperties(event)
    /\ op' = "IdentifyBeamParticles" /\ arg' = <<>>
    /\ ret' = <<"bool", AllFound(BeamProperties(event))>>
    /\ lookups' = 0 .. (NTracks(event) - 1)
    /\ logged' = FALSE
    /\ UNCHANGED <<part, event, used, beams, ss, pc, tline, obj>>

InitBeams ==
    /\ Constructed({ Line(5, 1, 211, 2, 0, 0, 1, 0, 1, 2, 0, 0, 0, 0) })
    /\ event \in BeamEvents
    /\ beams = <<>> /\ bp = <<>>
    /\ IdleThreads

NextBeams ==
    \/ DoIdentifyBeams
    \/ DoIdentifyBeamParticles
    \/ DoComputeEventDependentQuantities(event)

SpecBeams == InitBeams /\ [][NextBeams]_vars

---------------------------------------------------------------------------
(* Two threads, each constructing a particle from its own line.  The       *)
(* stringstream is a function-local static: one object for all calls.      *)

Threads == {1, 2}

LineA == Line(1, 21, 11, 0, 3, 4, 0, 0, -1, 2, 0, 0, 0, 0)
LineB == Line(2, 1, 211, 1, 0, 0, 1, 0, 1, 2, 0, 1, 2, 3)

\* Well-formed lines, the empty line, a line that is a field short, one with
\* a field too many, one with a field that is no number.
CtorLines ==
    { LineA, LineB, <<>>,
      SubSeq(LineA, 1, NFields - 1),
      Append(LineB, Tok(7)),
      [ LineA EXCEPT ![3] = BadTok ] }

At(t, where) == pc[t] = where
Goto(t, where) == pc' = [ pc EXCEPT ![t] = where ]

IdleParticle ==
    /\ part = DefaultParticle /\ event = <<>>
    /\ op = "ctor" /\ arg = <<>> /\ ret = <<"void">>
    /\ lookups = {} /\ logged = FALSE /\ used = <<>>

\* The member initialisers, then if(not line.empty())
Enter(t) ==
    /\ At(t, "enter")
    /\ obj' = [ obj EXCEPT ![t] = DefaultParticle ]
    /\ Goto(t, IF tline[t] = <<>> THEN "done" ELSE "str")
    /\ UNCHANGED <<ss, tline, part, event, op, arg, ret, lookups, logged, used, beams, bp>>

\* ss.str("")
Str(t) ==
    /\ At(t, "str")
    /\ ss' = SsStr(ss)
    /\ Goto(t, "clear")
    /\ UNCHANGED <<obj, tline, part, event, op, arg, ret, lookups, logged, used, beams, bp>>

\* ss.clear()
Clear(t) ==
    /\ At(t, "clear")
    /\ ss' = SsClear(ss)
    /\ Goto(t, "insert")
    /\ UNCHANGED <<obj, tline, part, event, op, arg, ret, lookups, logged, used, beams, bp>>

\* ss << line
Insert(t) ==
    /\ At(t, "insert")
    /\ ss' = SsInsert(ss, tline[t])
    /\ Goto(t, "extract")
    /\ UNCHANGED <<obj, tline, part, event, op, arg, ret, lookups, logged, used, beams, bp>>

\* ss >> I >> KS >> ... >> zv
Extract(t) ==
    /\ At(t, "extract")
    /\ obj' = [ obj EXCEPT ![t] = Fill(obj[t], Extracted(ss), 1) ]
    /\ ss' = SsExtract(ss)
    /\ Goto(t, "check")
    /\ UNCHANGED <<tline, part, event, op, arg, ret, lookups, logged, used, beams, bp>>

\* if(ss.fail() or not ss.eof()) throw std::runtime_error
Check(t) ==
    /\ At(t, "check")
    /\ Goto(t, IF BadInput(ss) THEN "thrown" ELSE "derive")
    /\ UNCHANGED <<ss, obj, tline, part, event, op, arg, ret, lookups, logged, used, beams, bp>>

\* ComputeDerivedQuantities()
Derive(t) ==
    /\ At(t, "derive")
    /\ obj' = [ obj EXCEPT ![t] = ComputeDerivedQuantities(obj[t]) ]
    /\ Goto(t, "done")
    /\ UNCHANGED <<ss, tline, part, event, op, arg, ret, lookups, logged, used, beams, bp>>

InitCtor ==
    /\ tline \in [ Threads -> CtorLines ]
    /\ pc = [ t \in Threads |-> "enter" ]
    /\ obj = [ t \in Threads |-> DefaultParticle ]
    /\ ss = FreshStream
    /\ IdleParticle /\ IdleBeams

NextCtor ==
    \E t \in Threads :
        \/ Enter(t)
        \/ Str(t)
        \/ Clear(t)
        \/ Insert(t)
        \/ Extract(t)
        \/ Check(t)
        \/ Derive(t)

SpecCtor == InitCtor /\ [][NextCtor]_vars

---------------------------------------------------------------------------
(* Properties: navigation *)

TrackRange == 0 .. (NTracks(event) - 1)

\* C1: GetParent() returns the track at 0-based index (origin index - 1) when
\* the particle has an event and that index lies in [0, N), and otherwise
\* returns NULL; it raises no error and looks up no index outside [0, N).
C1_GetParent ==
    op = "GetParent" =>
        /\ lookups \subseteq TrackRange
        /\ ret # <<"throw">>
        /\ ret = IF part.event /\ (part.orig - 1) \in TrackRange
                 THEN <<"track", part.orig - 1>>
                 ELSE <<"null">>

\* C2: GetChild(u) returns the track at 0-based index (first daughter + u - 1)
\* exactly when the particle has an event, first daughter >= 1,
\* u < last daughter - first daughter + 1 and that index is < N; otherwise it
\* returns NULL; it looks up no index outside [0, N).
C2_GetChild ==
    op = "GetChild" =>
        LET u == arg[1]
            valid == /\ part.event
                     /\ part.daughter >= 1
                     /\ u < part.ldaughter - part.daughter + 1
                     /\ part.daughter + u - 1 < NTracks(event)
        IN  /\ lookups \subseteq TrackRange
            /\ ret = IF valid THEN <<"track", part.daughter + u - 1>> ELSE <<"null">>

\* A child other than the first is found, and it is the last track.
C2_Witness ==
    /\ op = "GetChild" /\ arg[1] > 0
    /\ ret = <<"track", NTracks(event) - 1>>

\* C7: after a successful ComputeEventDependentQuantities, parentId is the
\* species code of the track at 0-based index (origin index - 1) if that index
\* lies in [0, N) and is left unset otherwise, no index outside [0, N) is
\* looked up, and for a particle attached to the event parentId is set exactly
\* when GetParent() returns a particle, whose species code it then is.
C7_ParentId ==
    (op = "ComputeEventDependentQuantities" /\ ~logged) =>
        LET valid == (part.orig - 1) \in TrackRange
            parent == GetParent(part, event).ret
        IN  /\ lookups \subseteq TrackRange
            /\ valid => part.parentId = TrackAt(event, part.orig - 1).id
            /\ ~valid => part.parentId = IntMin
            /\ part.event =>
                 /\ (part.parentId # IntMin) <=> (parent[1] = "track")
                 /\ parent[1] = "track" => part.parentId = TrackAt(event, parent[2]).id

\* The parent is the last track of the event, and the particle is attached.
C7_Witness ==
    /\ op = "ComputeEventDependentQuantities" /\ ~logged
    /\ part.event
    /\ part.orig = NTracks(event)
    /\ part.parentId = TrackAt(event, NTracks(event) - 1).id

---------------------------------------------------------------------------
(* Properties: kinematics *)

FrameDependentNames == { "z", "xFeynman", "thetaGamma", "ptVsGamma", "phiPrf", "parentId" }
FourVectorNames == { "E", "px", "py", "pz" }
IntrinsicNames == { "pt", "p", "theta", "phi", "rapidity", "eta" }
VertexNames == { "xv", "yv", "zv" }

\* Whether particles q and r agree on every field outside names.
SameExcept(q, r, names) == \A f \in (DOMAIN q) \ names : q[f] = r[f]

\* The frame-dependent fields have been populated.
Populated(q) == q.z # Num(0)

\* C3: when ComputeEventDependentQuantities runs on an event that lacks a
\* beam track, or an error occurs inside it, nothing is thrown to the caller
\* and the six frame-dependent fields keep the values they had.
C3_NoPartialUpdate ==
    [][ (/\ op' = "ComputeEventDependentQuantities"
         /\ (~BeamsPresent(event') \/ logged' \/ ret' = <<"throw">>))
        => (/\ ret' = <<"void">>
            /\ \A f \in FrameDependentNames : part'[f] = part[f]) ]_vars

\* A call fails on a particle whose frame-dependent fields were populated by
\* an earlier call.
C3_Witness ==
    /\ op = "ComputeEventDependentQuantities" /\ logged
    /\ Populated(part) /\ part.parentId # IntMin

\* C4: in every reachable state, whenever the stored values satisfy
\* E - pz <= 0, E + pz <= 0, p - pz = 0 or p + pz = 0, rapidity and eta are
\* both the sentinel -19.
C4_Sentinel ==
    (part.E - part.pz <= 0 \/ part.E + part.pz <= 0
        \/ part.p - part.pz = 0 \/ part.p + part.pz = 0)
    => (part.rapidity = Num(-19) /\ part.eta = Num(-19))

\* C6: after Set4Vector(v), px, py, pz, E read back as v's components and
\* pt, p, theta, phi, rapidity, eta are the intrinsic quantities of v:
\* pt = sqrt(px^2 + py^2), p = sqrt(pt^2 + pz^2), theta = atan2(pt, pz),
\* phi = atan2(py, px) in [0, 2 pi), rapidity = log((E+pz)/(E-pz))/2,
\* eta = log((p+pz)/(p-pz))/2, the last two -19 when a logarithm's argument
\* would not be positive and finite.
C6_RoundTrip ==
    op = "Set4Vector" =>
        LET px == arg[1]  py == arg[2]  pz == arg[3]  E == arg[4]
            pt == Sqrt(px * px + py * py)
            p  == Sqrt(pt * pt + pz * pz)
            sentinel == E - pz <= 0 \/ E + pz <= 0 \/ p - pz = 0 \/ p + pz = 0
        IN  /\ Get4Vector(part) = arg
            /\ part.pt = pt /\ part.p = p
            /\ part.theta = <<"atan2", pt, pz>>
            /\ part.phi = <<"phi_0_2pi", py, px>>
            /\ part.rapidity = IF sentinel THEN <<"num", -19>> ELSE <<"halflog", E + pz, E - pz>>
            /\ part.eta = IF sentinel THEN <<"num", -19>> ELSE <<"halflog", p + pz, p - pz>>

\* A four-vector with transverse momentum and proper logarithms was set.
C6_Witness ==
    /\ op = "Set4Vector"
    /\ part.rapidity[1] = "halflog" /\ part.eta[1] = "halflog"
    /\ part.px # 0

\* C9 as stated: once the frame-dependent fields are populated, only
\* Set4Vector and SetVertex change the particle (its reference to the event
\* left aside).
C9_OnlySetters ==
    [][ (Populated(part) /\ ~SameExcept(part', part, {"event"}))
        => op' \in {"Set4Vector", "SetVertex"} ]_vars

\* C9, amended: once the frame-dependent fields are populated, the particle is
\* changed by Set4Vector, SetVertex, SetEvent and a further
\* ComputeEventDependentQuantities, each within its own fields: SetVertex the
\* vertex; Set4Vector E, px, py, pz and the six frame-independent derived
\* fields; SetEvent the event reference; ComputeEventDependentQuantities the
\* six frame-dependent fields, and no track of the event it is given.
C9_Frames ==
    [][ Populated(part) =>
          /\ op' = "SetVertex" => SameExcept(part', part, VertexNames)
          /\ op' = "Set4Vector" =>
                SameExcept(part', part, FourVectorNames \cup IntrinsicNames)
          /\ op' = "SetEvent" => SameExcept(part', part, {"event"})
          /\ op' = "ComputeEventDependentQuantities" =>
                /\ SameExcept(part', part, FrameDependentNames)
                /\ event' \in KinEvents
          /\ part' # part =>
                op' \in {"Set4Vector", "SetVertex", "SetEvent",
                         "ComputeEventDependentQuantities"} ]_vars

\* A populated particle, its vertex replaced, was given a new four-vector:
\* its frame-dependent fields are still those of the old one.
C9_Witness ==
    /\ op = "Set4Vector"
    /\ Populated(part)
    /\ part.z # Observable("z", part, <<HadronTrack, BosonTrack>>)
    /\ part.xv = 1

---------------------------------------------------------------------------
(* Properties: beam identification *)

C8_SameBeams ==
    (/\ op = "ComputeEventDependentQuantities" /\ ~logged
     /\ beams # <<>> /\ AllFound(beams))
    => /\ Ptr(used[1]) = beams[2]
       /\ Ptr(used[2]) = beams[1]
       /\ Ptr(used[3]) = beams[3]

---------------------------------------------------------------------------
(* Properties: construction *)

\* C10: when two threads construct particles from their own lines, in any
\* interleaving, each particle holds the fields of its own line, and a
\* construction fails exactly when its own line is malformed: the outcome of
\* running the two constructions one after the other.
C10_Independent ==
    \A t \in Threads :
        /\ At(t, "done") => Construct(tline[t]) = <<obj[t]>>
        /\ At(t, "thrown") => Construct(tline[t]) = <<>>

=============================================================================
